---- MODULE Spec2Model ----
(***************************************************************************)
(* Model of timeseriesgym/grade_helpers.py: the Grader (invocation of the  *)
(* scoring function, ranking direction, medal thresholds) and the two      *)
(* report records with their dictionary codecs.                            *)
(*                                                                         *)
(* Numbers.  Every score, threshold and median is a fixed-point number     *)
(* stored as an integer count of millionths (unit 10^-6).  Leaderboard     *)
(* scores are even counts, so that the median of a leaderboard (the mean   *)
(* of two rows when the size is even) is exact; a candidate score may be   *)
(* any count.                                                              *)
(*                                                                         *)
(* Python values are tagged records: [t |-> "None"], [t |-> "float", v],   *)
(* [t |-> "int", v], [t |-> "bool", b], [t |-> "str", s], ...              *)
(***************************************************************************)
EXTENDS Integers, Sequences, FiniteSets, TLC

VARIABLES
    leaderboard,    \* the leaderboard table handed to is_lower_better / rank_score
    score,          \* the score argument of the last rank_score call
    result,         \* outcome of the last Grader.is_lower_better / rank_score call
    positions,      \* positions passed to get_score_at_position by the last rank_score
    grading_input,  \* the GradingInput handed to Grader.__call__
    calls,          \* keyword arguments of every grade_fn invocation of the last __call__
    grade_outcome,  \* what grade_fn did in the last __call__ (returned, raised)
    lookup,         \* what inspect.getfile / getsourcelines did in the last __call__
    call_result,    \* outcome of the last Grader.__call__, with the log entry it made
    report,         \* a CompetitionReport / CodeCompetitionReport instance
    encoded,        \* outcome of report.to_dict()
    decoded         \* outcome of <class>.from_dict(encoded)

vars == <<leaderboard, score, result, positions, grading_input, calls,
          grade_outcome, lookup, call_result, report, encoded, decoded>>

rankVars == <<leaderboard, score, result, positions>>
callVars == <<grading_input, calls, grade_outcome, lookup, call_result>>
codecVars == <<report, encoded, decoded>>

----------------------------------------------------------------------------
(* Bounds of the model *)

\* leaderboards of up to MaxLen rows are enumerated exhaustively (any order)
MaxLen == 3
\* number of distinct score levels of the enumerated leaderboards
NumLevels == 3
\* sorted leaderboards with ties (three plateaus) have up to MaxSorted rows
MaxSorted == 11
\* strictly ascending leaderboards (lower is better) have up to MaxTeams rows
MaxTeams == 1001
\* strictly descending leaderboards (higher is better) have up to MaxTeamsDesc
\* rows (sorting a descending column is the expensive case of the median)
MaxTeamsDesc == 101

----------------------------------------------------------------------------
(* Python values and call outcomes *)

None == [t |-> "None"]
Float(x) == [t |-> "float", v |-> x]
PyInt(x) == [t |-> "int", v |-> x]
PyBool(b) == [t |-> "bool", b |-> b]
\* a str, as its sequence of characters
PyStr(s) == [t |-> "str", s |-> s]
\* a number that is neither an int nor a float (decimal.Decimal, numpy.float32)
Decimal(x) == [t |-> "Decimal", v |-> x]

Return(x) == [st |-> "return", val |-> x]
Raise(e) == [st |-> "raise", exc |-> e]
NotCalled == [st |-> "idle"]

Max(a, b) == IF a >= b THEN a ELSE b

\* int(n * c) for the float literal c = p/q of the source (0.1, 0.2, 0.4,
\* 0.002, 0.05).  Each of these literals is a double slightly above p/q and
\* the double product truncates to floor(n*p/q) for every n up to 200000
\* (checked by enumeration against CPython), so integer division is exact.
IntTimes(n, p, q) == (n * p) \div q

----------------------------------------------------------------------------
(* Grader.is_lower_better *)

\* mutant: the comparison is not strict
is_lower_better_NonStrict(lb) ==
    IF "score" \notin lb.columns
    THEN Raise("KeyError: score")
    ELSE IF Len(lb.score) = 0
    THEN Raise("IndexError: single positional indexer is out-of-bounds")
    ELSE Return(lb.score[1] <= lb.score[Len(lb.score)])

is_lower_better(lb) ==
    IF "score" \notin lb.columns
    THEN Raise("KeyError: score")
    ELSE IF Len(lb.score) = 0
    THEN Raise("IndexError: single positional indexer is out-of-bounds")
    ELSE LET top_score == lb.score[1]
             bottom_score == lb.score[Len(lb.score)]
         IN  Return(top_score < bottom_score)

----------------------------------------------------------------------------
(* Grader.rank_score and its local functions *)

\* mutant: the bounds test is off by one and rejects the last row
get_score_at_position_OffByOne(scores, position) ==
    IF position >= Len(scores) \/ position < 1
    THEN Raise("IndexError: Position out of bounds in the leaderboard.")
    ELSE Return(scores[position])

get_score_at_position(scores, position) ==
    IF position - 1 >= Len(scores) \/ position < 1
    THEN Raise("IndexError: Position out of bounds in the leaderboard.")
    ELSE Return(scores[position])

\* mutant: the 100..249 band is missing, its sizes fall into the first band
MedalPositions_MergedBands(num_teams) ==
    IF 1 <= num_teams /\ num_teams < 250
    THEN << Max(1, IntTimes(num_teams, 1, 10)),
            Max(1, IntTimes(num_teams, 2, 10)),
            Max(1, IntTimes(num_teams, 4, 10)) >>
    ELSE IF 250 <= num_teams /\ num_teams < 1000
    THEN << 10 + IntTimes(num_teams, 2, 1000), 50, 100 >>
    ELSE IF num_teams >= 1000
    THEN << 10 + IntTimes(num_teams, 2, 1000),
            Max(1, IntTimes(num_teams, 5, 100)),
            Max(1, IntTimes(num_teams, 1, 10)) >>
    ELSE << >>

\* the band table of get_thresholds: <<gold, silver, bronze>> positions,
\* or <<>> in the else branch (the ValueError)
MedalPositions(num_teams) ==
    IF 1 <= num_teams /\ num_teams < 100
    THEN << Max(1, IntTimes(num_teams, 1, 10)),
            Max(1, IntTimes(num_teams, 2, 10)),
            Max(1, IntTimes(num_teams, 4, 10)) >>
    ELSE IF 100 <= num_teams /\ num_teams < 250
    THEN << 10,
            Max(1, IntTimes(num_teams, 2, 10)),
            Max(1, IntTimes(num_teams, 4, 10)) >>
    ELSE IF 250 <= num_teams /\ num_teams < 1000
    THEN << 10 + IntTimes(num_teams, 2, 1000), 50, 100 >>
    ELSE IF num_teams >= 1000
    THEN << 10 + IntTimes(num_teams, 2, 1000),
            Max(1, IntTimes(num_teams, 5, 100)),
            Max(1, IntTimes(num_teams, 1, 10)) >>
    ELSE << >>

\* scores.median(): the middle element of the sorted column, or the mean of
\* the two middle elements (exact: the rows are even counts of millionths)
Median(scores) ==
    LET n == Len(scores)
        sorted == SortSeq(scores, LAMBDA a, b : a < b)
    IN  IF n % 2 = 1
        THEN sorted[(n + 1) \div 2]
        ELSE (sorted[n \div 2] + sorted[n \div 2 + 1]) \div 2

\* [out |-> Return(<<gold, silver, bronze, median>>) or Raise(..),
\*  positions |-> the positions looked up, in order]
get_thresholds(scores, num_teams) ==
    LET pos == MedalPositions(num_teams) IN
    IF pos = << >>
    THEN [out |-> Raise("ValueError: Number of teams in leaderboard must be greater than 0."),
          positions |-> << >>]
    ELSE LET gold == get_score_at_position(scores, pos[1])
             silver == get_score_at_position(scores, pos[2])
             bronze == get_score_at_position(scores, pos[3])
         IN  IF gold.st = "raise" THEN [out |-> gold, positions |-> <<pos[1]>>]
             ELSE IF silver.st = "raise" THEN [out |-> silver, positions |-> <<pos[1], pos[2]>>]
             ELSE IF bronze.st = "raise" THEN [out |-> bronze, positions |-> pos]
             ELSE [out |-> Return(<<gold.val, silver.val, bronze.val, Median(scores)>>),
                   positions |-> pos]

\* score <= threshold if lower_is_better else score >= threshold
MeetsOrBeats(lower_is_better, s, threshold) ==
    IF lower_is_better THEN s <= threshold ELSE s >= threshold

\* mutant: the median comparison is not strict
BeatsMedian_NonStrict(lower_is_better, s, median_threshold) ==
    IF lower_is_better THEN s <= median_threshold ELSE s >= median_threshold

\* score < median_threshold if lower_is_better else score > median_threshold
BeatsMedian(lower_is_better, s, median_threshold) ==
    IF lower_is_better THEN s < median_threshold ELSE s > median_threshold

RankRecord(gold_medal, silver_medal, bronze_medal, above_median, th) ==
    [gold_medal |-> gold_medal,
     silver_medal |-> silver_medal,
     bronze_medal |-> bronze_medal,
     above_median |-> above_median,
     gold_threshold |-> th[1],
     silver_threshold |-> th[2],
     bronze_threshold |-> th[3],
     median_threshold |-> th[4]]

\* mutant: silver and bronze do not look at the better medals
Classify_NoPriority(lower_is_better, s, th) ==
    [gold_medal |-> IF lower_is_better THEN s <= th[1] ELSE s >= th[1],
     silver_medal |-> IF lower_is_better THEN s <= th[2] ELSE s >= th[2],
     bronze_medal |-> IF lower_is_better THEN s <= th[3] ELSE s >= th[3],
     above_median |-> IF lower_is_better THEN s < th[4] ELSE s > th[4],
     gold_threshold |-> th[1],
     silver_threshold |-> th[2],
     bronze_threshold |-> th[3],
     median_threshold |-> th[4]]

\* the medal part of rank_score, for a numeric score s
Classify(lower_is_better, s, th) ==
    LET gold_medal == MeetsOrBeats(lower_is_better, s, th[1])
        silver_medal == ~gold_medal /\ MeetsOrBeats(lower_is_better, s, th[2])
        bronze_medal == ~gold_medal /\ ~silver_medal
                           /\ MeetsOrBeats(lower_is_better, s, th[3])
        above_median == BeatsMedian(lower_is_better, s, th[4])
    IN  RankRecord(gold_medal, silver_medal, bronze_medal, above_median, th)

\* mutant: without a score the thresholds are not filled in
NoneRecord_ZeroThresholds(th) ==
    [gold_medal |-> FALSE, silver_medal |-> FALSE, bronze_medal |-> FALSE,
     above_median |-> FALSE, gold_threshold |-> 0, silver_threshold |-> 0,
     bronze_threshold |-> 0, median_threshold |-> 0]

\* the record returned when score is None
NoneRecord(th) == RankRecord(FALSE, FALSE, FALSE, FALSE, th)

\* mutant: every number passes the type check
IsFloatOrInt_AnyNumber(sc) == sc.t \in {"float", "int", "Decimal"}

\* isinstance(score, float | int)
IsFloatOrInt(sc) == sc.t \in {"float", "int"}

rank_score(sc, lb) ==
    IF "score" \notin lb.columns
    THEN [out |-> Raise("AssertionError: Leaderboard must have a score column."),
          positions |-> << >>]
    ELSE LET lower_is_better == is_lower_better(lb) IN
    IF lower_is_better.st = "raise"
    THEN [out |-> lower_is_better, positions |-> << >>]
    ELSE LET num_teams == Len(lb.score)
             th == get_thresholds(lb.score, num_teams)
         IN
    IF th.out.st = "raise"
    THEN th
    ELSE IF sc = None
    THEN [out |-> Return(NoneRecord(th.out.val)),
          positions |-> th.positions]
    ELSE IF ~IsFloatOrInt(sc)
    THEN [out |-> Raise("AssertionError: Expected score to be a float or int"),
          positions |-> th.positions]
    ELSE [out |-> Return(Classify(lower_is_better.val, sc.v, th.out.val)),
          positions |-> th.positions]

----------------------------------------------------------------------------
(* Inputs of the ranking operations *)

Level(k) == 2 * k

Board(scores) == [columns |-> {"team", "score"}, score |-> scores]

\* a table without a score column, of n rows
NoScoreBoard(n) == [columns |-> {"team"}, score |-> [i \in 1..n |-> 0]]

\* every leaderboard of at most MaxLen rows over the levels, in any order
SmallBoards ==
    { Board(s) : s \in UNION { [1..n -> {Level(k) : k \in 1..NumLevels}] : n \in 0..MaxLen } }

\* n rows in three plateaus: rows 1..a at `first`, a+1..b at `second`, the
\* rest at `third`
Plateaus(n, a, b, first, second, third) ==
    [i \in 1..n |-> IF i <= a THEN first ELSE IF i <= b THEN second ELSE third]

SortedBoards ==
    { Board(Plateaus(n, a, b, Level(3), Level(2), Level(1))) :
        n \in 1..MaxSorted, a \in 0..MaxSorted, b \in 0..MaxSorted }
    \cup
    { Board(Plateaus(n, a, b, Level(1), Level(2), Level(3))) :
        n \in 1..MaxSorted, a \in 0..MaxSorted, b \in 0..MaxSorted }

\* n rows of distinct scores, best first: descending (higher is better) or
\* ascending (lower is better)
RampBoards ==
    { Board([i \in 1..n |-> 2 * (n + 1 - i)]) : n \in 1..MaxTeamsDesc }
    \cup
    { Board([i \in 1..n |-> 2 * i]) : n \in 1..MaxTeams }

Leaderboards ==
    SmallBoards \cup SortedBoards \cup RampBoards \cup {NoScoreBoard(0), NoScoreBoard(2)}

\* candidate scores: absent, floats on and between the levels, below and
\* above all of them, an int, and two values that are not int or float
Scores ==
    {None, PyStr(<<"0", ".", "5">>), Decimal(Level(1)), PyInt(Level(2))}
    \cup { Float(x) : x \in 1..(2 * NumLevels + 1) }

----------------------------------------------------------------------------
(* Ranking: the state machine *)

IdleCall == /\ grading_input = None
            /\ calls = << >>
            /\ grade_outcome = NotCalled
            /\ lookup = "unused"
            /\ call_result = NotCalled

IdleCodec == /\ report = None
             /\ encoded = NotCalled
             /\ decoded = NotCalled

InitRank ==
    /\ leaderboard \in Leaderboards
    /\ score = None
    /\ result = [op |-> "none", st |-> "idle"]
    /\ positions = << >>
    /\ IdleCall
    /\ IdleCodec

IsLowerBetter ==
    /\ result' = [op |-> "is_lower_better"] @@ is_lower_better(leaderboard)
    /\ score' = None
    /\ positions' = << >>
    /\ UNCHANGED <<leaderboard, callVars, codecVars>>

RankScore ==
    \E sc \in Scores :
        LET r == rank_score(sc, leaderboard) IN
        /\ score' = sc
        /\ result' = [op |-> "rank_score"] @@ r.out
        /\ positions' = r.positions
        /\ UNCHANGED <<leaderboard, callVars, codecVars>>

NextRank == IsLowerBetter \/ RankScore

SpecRank == InitRank /\ [][NextRank]_vars

----------------------------------------------------------------------------
(* GradingInput and Grader.__call__ *)

\* the fields of the GradingInput dataclass
Fields ==
    {"submission", "answers", "submission_folder_path",
     "hyperparameter_search_config", "solution_file_path",
     "submission_file_path", "coding_config"}

\* a field is None, or a falsy object (an empty dict, an empty table), or a
\* populated one
FieldValues == {None, [t |-> "object", truthy |-> FALSE], [t |-> "object", truthy |-> TRUE]}

GradingInputs == [Fields -> FieldValues]

\* mutant: the filter tests truthiness instead of `is not None`
Kwargs_Truthy(gi) ==
    LET keep == { k \in DOMAIN gi : gi[k] # None /\ gi[k].truthy }
    IN  [k \in keep |-> gi[k]]

\* {k: v for k, v in grading_input.__dict__.items() if v is not None}
Kwargs(gi) ==
    LET keep == { k \in DOMAIN gi : gi[k] # None }
    IN  [k \in keep |-> gi[k]]

\* round(x, 5) of a float of x millionths: the nearest multiple of 10; on a
\* decimal tie the binary value of the double decides, so both neighbours
\* are possible
Round5(x) ==
    LET down == x - (x % 10)
    IN  IF x % 10 = 0 THEN {x}
        ELSE IF x % 10 < 5 THEN {down}
        ELSE IF x % 10 > 5 THEN {down + 10}
        ELSE {down, down + 10}

\* round(score, 5) if isinstance(score, float) else score
RoundedScores(sc) ==
    IF sc.t = "float" THEN { Float(r) : r \in Round5(sc.v) } ELSE {sc}

\* what the scoring function can do when called: return a float, an int or
\* None, raise InvalidSubmissionError, raise another Exception, or raise a
\* BaseException that is not an Exception (SystemExit, KeyboardInterrupt)
GradeFnOutcomes ==
    { Return(Float(123456)), Return(Float(123455)), Return(Float(2000000)),
      Return(PyInt(3000000)), Return(None),
      Raise("InvalidSubmissionError"), Raise("Exception"), Raise("BaseException") }

\* inspect.getfile(grade_fn) and inspect.getsourcelines(grade_fn)[1]: both
\* succeed, or one raises TypeError (a built-in or other object without a
\* Python source), or getsourcelines raises OSError (source not retrievable)
LookupOutcomes == {"found", "TypeError", "OSError"}

\* the outcomes of Grader.__call__ once grade_fn did `go` and, where the
\* error report is built, the source lookup did `lk`
CallOutcomes(go, lk) ==
    IF go.st = "return"
    THEN { Return(r) @@ [log |-> "none"] : r \in RoundedScores(go.val) }
    ELSE IF go.exc = "InvalidSubmissionError"
    THEN { Return(None) @@ [log |-> "warning"] }
    ELSE IF go.exc = "Exception"
    THEN IF lk \in {"found", "TypeError"}
         THEN { Return(None) @@ [log |-> "error"] }
         ELSE { Raise("OSError") @@ [log |-> "none"] }
    ELSE { Raise(go.exc) @@ [log |-> "none"] }

InitCall ==
    /\ grading_input \in GradingInputs
    /\ calls = << >>
    /\ grade_outcome = NotCalled
    /\ lookup = "unused"
    /\ call_result = NotCalled
    /\ leaderboard = Board(<< >>)
    /\ score = None
    /\ result = [op |-> "none", st |-> "idle"]
    /\ positions = << >>
    /\ IdleCodec

\* Grader.__call__(grading_input)
Call ==
    \E go \in GradeFnOutcomes :
    \E lk \in (IF go.st = "raise" /\ go.exc = "Exception" THEN LookupOutcomes ELSE {"unused"}) :
    \E out \in CallOutcomes(go, lk) :
        /\ calls' = << Kwargs(grading_input) >>
        /\ grade_outcome' = go
        /\ lookup' = lk
        /\ call_result' = out
        /\ UNCHANGED <<grading_input, rankVars, codecVars>>

NextCall == Call

SpecCall == InitCall /\ [][NextCall]_vars

----------------------------------------------------------------------------
(* Conversions used by the report codecs *)

DigitChars == <<"0", "1", "2", "3", "4", "5", "6", "7", "8", "9">>
DigitValue(c) == CHOOSE d \in 0..9 : DigitChars[d + 1] = c

\* the decimal digits of n >= 0, at least `width` of them (zero padded)
RECURSIVE Digits(_, _)
Digits(n, width) ==
    IF n < 10 /\ width <= 1
    THEN << DigitChars[n + 1] >>
    ELSE Digits(n \div 10, width - 1) \o << DigitChars[(n % 10) + 1] >>

\* the number a sequence of digit characters denotes
RECURSIVE Number(_)
Number(cs) ==
    IF cs = << >> THEN 0
    ELSE 10 * Number(SubSeq(cs, 1, Len(cs) - 1)) + DigitValue(cs[Len(cs)])

RECURSIVE StripZeros(_)
StripZeros(cs) ==
    IF Len(cs) > 1 /\ cs[Len(cs)] = "0"
    THEN StripZeros(SubSeq(cs, 1, Len(cs) - 1))
    ELSE cs

RECURSIVE PadZeros(_, _)
PadZeros(cs, width) ==
    IF Len(cs) >= width THEN cs ELSE PadZeros(cs \o << "0" >>, width)

IndexOf(cs, c) == CHOOSE i \in 1..Len(cs) : cs[i] = c

\* str(x) of a float of x millionths: sign, integer digits, a point and the
\* fractional digits without trailing zeros ("2.0", "-1.5", "0.12346").
\* This is repr's positional form, which Python uses for 1e-4 <= |x| < 1e16
\* and for 0.0; the floats of the model are in that range.
FormatFloat(x) ==
    LET a == IF x < 0 THEN -x ELSE x
        sign == IF x < 0 THEN << "-" >> ELSE << >>
    IN  sign \o Digits(a \div 1000000, 1) \o << "." >>
             \o StripZeros(Digits(a % 1000000, 6))

\* float(s) of such a string, in millionths
ParseFloat(cs) ==
    LET neg == cs[1] = "-"
        body == IF neg THEN SubSeq(cs, 2, Len(cs)) ELSE cs
        dot == IndexOf(body, ".")
        whole == Number(SubSeq(body, 1, dot - 1))
        frac == Number(PadZeros(SubSeq(body, dot + 1, Len(body)), 6))
        a == whole * 1000000 + frac
    IN  IF neg THEN -a ELSE a

\* str(score)
PyStrOf(x) == PyStr(FormatFloat(x.v))

\* float(x) of a float, an int or a str holding a float
PyFloatOf(x) ==
    IF x.t = "str" THEN Float(ParseFloat(x.s)) ELSE Float(x.v)

\* bool(x): None is falsy
PyBoolOf(x) == IF x = None THEN PyBool(FALSE) ELSE x

DateTime(year, month, day, hour, minute, second, microsecond, utc) ==
    [t |-> "datetime", year |-> year, month |-> month, day |-> day,
     hour |-> hour, minute |-> minute, second |-> second,
     microsecond |-> microsecond, utc |-> utc]

\* datetime.isoformat(): YYYY-MM-DDTHH:MM:SS, then .ffffff unless the
\* microsecond is 0, then +00:00 when the datetime is aware (UTC)
isoformat(d) ==
    PyStr(Digits(d.year, 4) \o << "-" >> \o Digits(d.month, 2) \o << "-" >>
          \o Digits(d.day, 2) \o << "T" >> \o Digits(d.hour, 2) \o << ":" >>
          \o Digits(d.minute, 2) \o << ":" >> \o Digits(d.second, 2)
          \o (IF d.microsecond # 0 THEN << "." >> \o Digits(d.microsecond, 6) ELSE << >>)
          \o (IF d.utc THEN << "+", "0", "0", ":", "0", "0" >> ELSE << >>))

\* datetime.fromisoformat(s) of such a string
fromisoformat(x) ==
    LET cs == x.s
        hasMicro == Len(cs) >= 20 /\ cs[20] = "."
        rest == IF hasMicro THEN SubSeq(cs, 27, Len(cs)) ELSE SubSeq(cs, 20, Len(cs))
    IN  DateTime(Number(SubSeq(cs, 1, 4)), Number(SubSeq(cs, 6, 7)),
                 Number(SubSeq(cs, 9, 10)), Number(SubSeq(cs, 12, 13)),
                 Number(SubSeq(cs, 15, 16)), Number(SubSeq(cs, 18, 19)),
                 IF hasMicro THEN Number(SubSeq(cs, 21, 26)) ELSE 0,
                 rest # << >>)

----------------------------------------------------------------------------
(* CompetitionReport and CodeCompetitionReport *)

CompetitionReport_to_dict(r) ==
    IF \/ r.gold_threshold = None
       \/ r.silver_threshold = None
       \/ r.bronze_threshold = None
       \/ r.median_threshold = None
    THEN Raise("TypeError: float() argument must be a string or a real number, not NoneType")
    ELSE Return(
        [competition_id |-> r.competition_id,
         score |-> IF r.score # None THEN PyStrOf(r.score) ELSE None,
         gold_threshold |-> PyFloatOf(r.gold_threshold),
         silver_threshold |-> PyFloatOf(r.silver_threshold),
         bronze_threshold |-> PyFloatOf(r.bronze_threshold),
         median_threshold |-> PyFloatOf(r.median_threshold),
         any_medal |-> PyBoolOf(r.any_medal),
         gold_medal |-> PyBoolOf(r.gold_medal),
         silver_medal |-> PyBoolOf(r.silver_medal),
         bronze_medal |-> PyBoolOf(r.bronze_medal),
         above_median |-> PyBoolOf(r.above_median),
         submission_exists |-> PyBoolOf(r.submission_exists),
         valid_submission |-> PyBoolOf(r.valid_submission),
         is_lower_better |-> PyBoolOf(r.is_lower_better),
         created_at |-> isoformat(r.created_at),
         submission_path |-> r.submission_path])

CompetitionReport_from_dict(data) ==
    Return(
        [cls |-> "CompetitionReport",
         competition_id |-> data.competition_id,
         score |-> IF data.score # None THEN PyFloatOf(data.score) ELSE None,
         gold_threshold |-> PyFloatOf(data.gold_threshold),
         silver_threshold |-> PyFloatOf(data.silver_threshold),
         bronze_threshold |-> PyFloatOf(data.bronze_threshold),
         median_threshold |-> PyFloatOf(data.median_threshold),
         any_medal |-> PyBoolOf(data.any_medal),
         gold_medal |-> PyBoolOf(data.gold_medal),
         silver_medal |-> PyBoolOf(data.silver_medal),
         bronze_medal |-> PyBoolOf(data.bronze_medal),
         above_median |-> PyBoolOf(data.above_median),
         submission_exists |-> PyBoolOf(data.submission_exists),
         valid_submission |-> PyBoolOf(data.valid_submission),
         is_lower_better |-> PyBoolOf(data.is_lower_better),
         created_at |-> fromisoformat(data.created_at),
         submission_path |-> data.submission_path])

CodeCompetitionReport_to_dict(r) ==
    Return(
        [competition_id |-> r.competition_id,
         defined_classes |-> r.defined_classes,
         initialized_classes |-> r.initialized_classes,
         defined_class_methods |-> r.defined_class_methods,
         executed_class_methods |-> r.executed_class_methods,
         defined_functions |-> r.defined_functions,
         executed_functions |-> r.executed_functions,
         test_metric |-> r.test_metric,
         submission_exists |-> PyBoolOf(r.submission_exists),
         valid_submission |-> PyBoolOf(r.valid_submission),
         created_at |-> isoformat(r.created_at),
         submission_path |-> r.submission_path])

CodeCompetitionReport_from_dict(data) ==
    Return(
        [cls |-> "CodeCompetitionReport",
         competition_id |-> data.competition_id,
         defined_classes |-> data.defined_classes,
         initialized_classes |-> data.initialized_classes,
         defined_class_methods |-> data.defined_class_methods,
         executed_class_methods |-> data.executed_class_methods,
         defined_functions |-> data.defined_functions,
         executed_functions |-> data.executed_functions,
         test_metric |-> data.test_metric,
         submission_exists |-> PyBoolOf(data.submission_exists),
         valid_submission |-> PyBoolOf(data.valid_submission),
         created_at |-> fromisoformat(data.created_at),
         submission_path |-> data.submission_path])

\* Python's == on two field values: numbers compare by value, everything
\* else by type and content (None equals only None)
FieldEq(x, y) ==
    IF x.t \in {"float", "int"} /\ y.t \in {"float", "int"}
    THEN x.v = y.v
    ELSE x = y

\* the dataclass __eq__: same class, all fields equal
ReportEq(a, b) ==
    /\ a.cls = b.cls
    /\ DOMAIN a = DOMAIN b
    /\ \A f \in DOMAIN a \ {"cls"} : FieldEq(a[f], b[f])

----------------------------------------------------------------------------
(* Inputs of the codecs: reports built with the declared field types *)

\* float | None
OptFloats(x) == {None, Float(x)}
\* bool | None
OptBools == {None, PyBool(TRUE), PyBool(FALSE)}
Bools == {PyBool(TRUE), PyBool(FALSE)}
\* str | None
OptStrs == {None, PyStr(<<"f">>)}

\* 0.12346, -1.5 or no score
ReportScores == {None, Float(123460), Float(-1500000)}

DateTimes ==
    { DateTime(2025, 5, 9, 7, 30, 0, 0, FALSE),
      DateTime(2025, 12, 31, 23, 59, 59, 1500, TRUE) }

CompetitionReports ==
    { [cls |-> "CompetitionReport",
       competition_id |-> PyStr(<<"c">>),
       score |-> sc,
       gold_threshold |-> gt,
       silver_threshold |-> st,
       bronze_threshold |-> bt,
       median_threshold |-> mt,
       any_medal |-> am,
       gold_medal |-> gm,
       silver_medal |-> sm,
       bronze_medal |-> bm,
       above_median |-> ab,
       submission_exists |-> se,
       valid_submission |-> vs,
       is_lower_better |-> lb,
       created_at |-> ca,
       submission_path |-> PyStr(<<"p">>)] :
      sc \in ReportScores,
      gt \in OptFloats(4000000), st \in OptFloats(3000000),
      bt \in OptFloats(2500000), mt \in OptFloats(2000000),
      am \in OptBools, gm \in OptBools, sm \in OptBools, bm \in OptBools,
      ab \in OptBools,
      se \in Bools, vs \in Bools, lb \in Bools,
      ca \in DateTimes }

CodeCompetitionReports ==
    { [cls |-> "CodeCompetitionReport",
       competition_id |-> PyStr(<<"c">>),
       defined_classes |-> dc,
       initialized_classes |-> ic,
       defined_class_methods |-> dm,
       executed_class_methods |-> em,
       defined_functions |-> df,
       executed_functions |-> ef,
       test_metric |-> tm,
       submission_exists |-> se,
       valid_submission |-> vs,
       created_at |-> ca,
       submission_path |-> PyStr(<<"p">>)] :
      dc \in OptStrs, ic \in OptStrs, dm \in OptStrs, em \in OptStrs,
      df \in OptStrs, ef \in OptStrs, tm \in OptStrs,
      se \in Bools, vs \in Bools, ca \in DateTimes }

----------------------------------------------------------------------------
(* The codecs: the state machine *)

InitCodec ==
    /\ report \in CompetitionReports \cup CodeCompetitionReports
    /\ encoded = NotCalled
    /\ decoded = NotCalled
    /\ leaderboard = Board(<< >>)
    /\ score = None
    /\ result = [op |-> "none", st |-> "idle"]
    /\ positions = << >>
    /\ IdleCall

\* report.to_dict()
ToDict ==
    /\ encoded = NotCalled
    /\ encoded' = IF report.cls = "CompetitionReport"
                  THEN CompetitionReport_to_dict(report)
                  ELSE CodeCompetitionReport_to_dict(report)
    /\ UNCHANGED <<report, decoded, rankVars, callVars>>

\* type(report).from_dict(encoded)
FromDict ==
    /\ encoded.st = "return"
    /\ decoded = NotCalled
    /\ decoded' = IF report.cls = "CompetitionReport"
                  THEN CompetitionReport_from_dict(encoded.val)
                  ELSE CodeCompetitionReport_from_dict(encoded.val)
    /\ UNCHANGED <<report, encoded, rankVars, callVars>>

NextCodec == ToDict \/ FromDict

SpecCodec == InitCodec /\ [][NextCodec]_vars

----------------------------------------------------------------------------
(* Properties of the ranking operations *)

RankReturned == result.op = "rank_score" /\ result.st = "return"
RankRaised == result.op = "rank_score" /\ result.st = "raise"
NumTeams == Len(leaderboard.score)
HasScoreColumn == "score" \in leaderboard.columns
NumericScore == score.t \in {"float", "int"}

\* the direction the leaderboard implies: first row strictly below the last
LowerIsBetter == leaderboard.score[1] < leaderboard.score[NumTeams]

\* the band table as the specification states it, with floors written as
\* integer quotients: <<gold, silver, bronze>> 1-based positions
TablePositions(n) ==
    CASE 1 <= n /\ n < 100 ->
            << Max(1, n \div 10), Max(1, n \div 5), Max(1, (2 * n) \div 5) >>
      [] 100 <= n /\ n < 250 ->
            << 10, Max(1, n \div 5), Max(1, (2 * n) \div 5) >>
      [] 250 <= n /\ n < 1000 ->
            << 10 + n \div 500, 50, 100 >>
      [] n >= 1000 ->
            << 10 + n \div 500, Max(1, n \div 20), Max(1, n \div 10) >>

\* C2: whenever rank_score returns, its gold, silver and bronze thresholds
\* are the leaderboard scores at the positions of the band table for the
\* leaderboard's size n; for n = 50 these are rows 5, 10 and 20, and for
\* every n in [100, 250) the gold threshold is row 10.
C2_ThresholdsAtBandPositions ==
    RankReturned =>
        LET n == NumTeams
            p == TablePositions(n)
            r == result.val
        IN  /\ n >= 1
            /\ r.gold_threshold = leaderboard.score[p[1]]
            /\ r.silver_threshold = leaderboard.score[p[2]]
            /\ r.bronze_threshold = leaderboard.score[p[3]]
            /\ n = 50 => /\ r.gold_threshold = leaderboard.score[5]
                         /\ r.silver_threshold = leaderboard.score[10]
                         /\ r.bronze_threshold = leaderboard.score[20]
            /\ (100 <= n /\ n < 250) => r.gold_threshold = leaderboard.score[10]

\* C2 witness: a 150-row leaderboard of distinct scores was ranked and the
\* gold threshold is the score of row 10 and of no other row
C2_Witness ==
    /\ RankReturned
    /\ NumTeams = 150
    /\ \A i \in 1..NumTeams :
          leaderboard.score[i] = result.val.gold_threshold <=> i = 10

\* C3: for a numeric score, gold is awarded iff the score meets or beats the
\* gold threshold in the derived direction, silver iff not gold and it meets
\* or beats the silver threshold, bronze iff neither and it meets or beats
\* the bronze threshold; so at most one medal flag is true and a score that
\* satisfies the gold condition is never flagged silver or bronze.
C3_MedalsExclusiveByPriority ==
    (RankReturned /\ NumericScore) =>
        LET r == result.val
            s == score.v
            meets(th) == IF LowerIsBetter THEN s <= th ELSE s >= th
        IN  /\ r.gold_medal <=> meets(r.gold_threshold)
            /\ r.silver_medal <=> (~r.gold_medal /\ meets(r.silver_threshold))
            /\ r.bronze_medal <=>
                  (~r.gold_medal /\ ~r.silver_medal /\ meets(r.bronze_threshold))
            /\ ~(r.gold_medal /\ r.silver_medal)
            /\ ~(r.gold_medal /\ r.bronze_medal)
            /\ ~(r.silver_medal /\ r.bronze_medal)
            /\ meets(r.gold_threshold) => (~r.silver_medal /\ ~r.bronze_medal)

\* C3 witness: a score that meets all three (distinct) thresholds was ranked
\* and got the gold medal only
C3_Witness ==
    /\ RankReturned
    /\ NumericScore
    /\ result.val.gold_medal
    /\ result.val.gold_threshold # result.val.silver_threshold
    /\ result.val.silver_threshold # result.val.bronze_threshold
    /\ ~result.val.silver_medal
    /\ ~result.val.bronze_medal

Thresholds(r) ==
    << r.gold_threshold, r.silver_threshold, r.bronze_threshold, r.median_threshold >>

\* C4: a rank_score call with score None that returns has all four flags
\* false, and any two consecutive returning calls on the same leaderboard
\* (whatever their scores, None or numeric) return the same four thresholds.
C4_NoneScoreSameThresholds ==
    [][ /\ (result'.op = "rank_score" /\ result'.st = "return" /\ score' = None) =>
            /\ ~result'.val.gold_medal
            /\ ~result'.val.silver_medal
            /\ ~result'.val.bronze_medal
            /\ ~result'.val.above_median
        /\ (RankReturned /\ result'.op = "rank_score" /\ result'.st = "return"
              /\ leaderboard' = leaderboard) =>
            Thresholds(result'.val) = Thresholds(result.val)
      ]_vars

\* C4 witness: rank_score(None, leaderboard) returned on a leaderboard whose
\* four thresholds are pairwise different
C4_Witness ==
    /\ RankReturned
    /\ score = None
    /\ Cardinality({ Thresholds(result.val)[i] : i \in 1..4 }) = 4

SortedDescending(s) == \A i \in 1..(Len(s) - 1) : s[i] >= s[i + 1]
SortedAscending(s) == \A i \in 1..(Len(s) - 1) : s[i] <= s[i + 1]
LowerBetterReturned == result.op = "is_lower_better" /\ result.st = "return"

\* C6 as stated: on a non-empty leaderboard sorted descending
\* is_lower_better returns false, and on one sorted ascending it returns true.
C6_Original ==
    LowerBetterReturned =>
        /\ SortedDescending(leaderboard.score) => result.val = FALSE
        /\ SortedAscending(leaderboard.score) => result.val = TRUE

\* C6 amended: on a non-empty leaderboard sorted descending is_lower_better
\* returns false; on one sorted ascending it returns true iff the first
\* score is strictly less than the last, so an ascending leaderboard whose
\* scores are all equal (any single row included) gives false.
C6_DirectionOfSortedBoard ==
    LowerBetterReturned =>
        LET s == leaderboard.score IN
        /\ SortedDescending(s) => result.val = FALSE
        /\ (SortedAscending(s) /\ s[1] < s[Len(s)]) => result.val = TRUE
        /\ (SortedAscending(s) /\ s[1] = s[Len(s)]) => result.val = FALSE

\* C6 witness: is_lower_better returned true on an ascending leaderboard
\* that has ties
C6_Witness ==
    /\ LowerBetterReturned
    /\ result.val = TRUE
    /\ SortedAscending(leaderboard.score)
    /\ \E i \in 1..(NumTeams - 1) : leaderboard.score[i] = leaderboard.score[i + 1]

\* C7: rank_score raises, and returns no record, whenever the leaderboard is
\* empty, or has no score column, or the score is present but is neither an
\* int nor a float, whatever the other argument is.
C7_ContractViolationsRaise ==
    (result.op = "rank_score"
       /\ \/ NumTeams = 0
          \/ ~HasScoreColumn
          \/ (score # None /\ ~NumericScore))
    => result.st = "raise"

\* C7 witness: a number that is not an int or float was ranked against a
\* well-formed leaderboard, and the call raised
C7_Witness ==
    /\ RankRaised
    /\ HasScoreColumn
    /\ NumTeams >= 1
    /\ score.t = "Decimal"

\* C8: for a numeric score, above_median is true iff the score is strictly
\* better than the median threshold in the derived direction, independently
\* of the medals; the median threshold has at most half of the rows below
\* it and at most half above it; a score equal to the median is not
\* above_median while a score equal to a medal threshold earns a medal.
C8_AboveMedianStrict ==
    (RankReturned /\ NumericScore) =>
        LET r == result.val
            s == score.v
            m == r.median_threshold
            below == Cardinality({ i \in 1..NumTeams : leaderboard.score[i] < m })
            above == Cardinality({ i \in 1..NumTeams : leaderboard.score[i] > m })
        IN  /\ r.above_median <=> (IF LowerIsBetter THEN s < m ELSE s > m)
            /\ 2 * below <= NumTeams
            /\ 2 * above <= NumTeams
            /\ s = m => ~r.above_median
            /\ s = r.gold_threshold => r.gold_medal
            /\ s = r.silver_threshold => (r.gold_medal \/ r.silver_medal)
            /\ s = r.bronze_threshold =>
                  (r.gold_medal \/ r.silver_medal \/ r.bronze_medal)

\* C8 witness: a score equal to both the silver threshold and the median got
\* the silver medal and is not above the median
C8_Witness ==
    /\ RankReturned
    /\ NumericScore
    /\ score.v = result.val.median_threshold
    /\ score.v = result.val.silver_threshold
    /\ result.val.silver_medal
    /\ ~result.val.above_median

\* C10: on a leaderboard of n >= 1 rows rank_score looks up exactly three
\* positions g, s, b with 1 <= g <= s <= b <= n, and it never raises the
\* out-of-bounds IndexError of get_score_at_position; the ValueError of
\* get_thresholds is never raised at all, an empty leaderboard failing
\* earlier, in is_lower_better.
C10_PositionsOrderedInBounds ==
    result.op = "rank_score" =>
        /\ (HasScoreColumn /\ NumTeams >= 1) =>
              /\ Len(positions) = 3
              /\ 1 <= positions[1]
              /\ positions[1] <= positions[2]
              /\ positions[2] <= positions[3]
              /\ positions[3] <= NumTeams
              /\ result.st = "raise" =>
                    result.exc # "IndexError: Position out of bounds in the leaderboard."
        /\ result.st = "raise" =>
              result.exc # "ValueError: Number of teams in leaderboard must be greater than 0."
        /\ (HasScoreColumn /\ NumTeams = 0) =>
              /\ result.st = "raise"
              /\ result.exc = "IndexError: single positional indexer is out-of-bounds"

\* C10 witness: a 1000-row leaderboard was ranked with three different
\* positions looked up, the last one short of the table's end
C10_Witness ==
    /\ RankReturned
    /\ NumTeams = 1000
    /\ positions[1] < positions[2]
    /\ positions[2] < positions[3]
    /\ positions[3] < NumTeams

----------------------------------------------------------------------------
(* Properties of Grader.__call__ *)

\* C1: Grader.__call__ always returns normally, whatever the scoring
\* function does and whether the source lookup succeeds or fails, and it
\* returns None whenever the scoring function raised.
C1_CallNeverRaises ==
    call_result.st # "idle" =>
        /\ call_result.st = "return"
        /\ grade_outcome.st = "raise" => call_result.val = None

\* C9: every Grader.__call__ invokes the scoring function exactly once, with
\* keyword arguments named exactly after the GradingInput fields that are
\* not None and carrying those fields' values (a falsy value that is not
\* None included), and leaves the GradingInput unchanged.
C9_KwargsArePopulatedFields ==
    [][ call_result'.st # "idle" =>
          /\ Len(calls') = 1
          /\ DOMAIN calls'[1] = { f \in Fields : grading_input[f] # None }
          /\ \A f \in DOMAIN calls'[1] : calls'[1][f] = grading_input[f]
          /\ grading_input' = grading_input
      ]_vars

\* C9 witness: a call was made with an absent field, a falsy field and a
\* populated field, and the scoring function received the last two only
C9_Witness ==
    /\ call_result.st # "idle"
    /\ grading_input["submission"] = None
    /\ grading_input["coding_config"] = [t |-> "object", truthy |-> FALSE]
    /\ grading_input["answers"] = [t |-> "object", truthy |-> TRUE]
    /\ Len(calls) = 1
    /\ "coding_config" \in DOMAIN calls[1]
    /\ "answers" \in DOMAIN calls[1]
    /\ "submission" \notin DOMAIN calls[1]

----------------------------------------------------------------------------
(* Properties of the report codecs *)

\* C5: for every report built with the declared field types, from_dict of
\* its to_dict returns a report equal to it in all fields, numbers compared
\* by value.
C5_RoundTrip ==
    decoded.st # "idle" =>
        /\ decoded.st = "return"
        /\ ReportEq(decoded.val, report)

====
